---------------------------- MODULE Spec2Model ----------------------------
(***************************************************************************)
(* Model of the S&P 500 standard-deviation monitor:                        *)
(*   - the analysis cell of erase.ipynb (fetch, rolling statistics, chart  *)
(*     lists, status classification, HTML and JSON records);               *)
(*   - the publishing workflow (schedule, analysis step, temporary deploy  *)
(*     directory, gh-pages deploy, final verification).                    *)
(*                                                                         *)
(* Floating-point values are fixed-point numbers in units of 1/Scale,      *)
(* together with the IEEE special values NaN, +Inf and -Inf that numpy     *)
(* produces instead of raising.                                            *)
(***************************************************************************)
EXTENDS Integers, Sequences, FiniteSets, TLC

VARIABLES
    \* ---- analysis cell (erase.ipynb, cell 822de092)
    pc,             \* position in the cell
    closes,         \* sp500['Close'].dropna(): sequence of closing prices
    ma_200,         \* rolling mean series, aligned with closes
    std_200,        \* rolling std series, aligned with closes
    current_price, current_ma, current_std, std_away,
    last_30_days, ma_30_days,
    dates, prices, mas,
    abs_std, status, status_color, direction,
    html_content,   \* <<>> until built, then <<record>>
    data_json,      \* <<>> until built, then <<record>>
    \* ---- publishing workflow (unnamed/part_000)
    wf_pc,          \* position in the job
    run,            \* number of the current workflow run
    py_exit,        \* exit status of python sp500_monitor.py
    workdir,        \* files of the checked-out working tree
    tmpdir,         \* files of /tmp/website-deploy
    branch,         \* branch the working tree is on
    head_tree,      \* tree of the commit the local gh-pages branch points to
    local_ref,      \* whether refs/heads/gh-pages exists
    remote_tree,    \* tree of origin/gh-pages
    remote_ref,     \* whether origin has a gh-pages branch
    committed,      \* whether this run's deploy step made a commit
    pushed,         \* whether this run's deploy step pushed it
    index,          \* the git index: the files staged or tracked
    generated,      \* the files the analysis script wrote in this run
    exits,          \* exit status of the script in each run so far
    verified_on,    \* branch seen by the final verification step
    \* ---- scheduler (unnamed/part_000, on.schedule)
    dow, hour, minute,  \* UTC clock: day of week (0 = Sunday), hour, minute
    triggered,      \* whether the schedule has fired in the current minute
    fired           \* number of scheduled triggers in the current hour

pipeVars == <<pc, closes, ma_200, std_200, current_price, current_ma,
              current_std, std_away, last_30_days, ma_30_days, dates, prices,
              mas, abs_std, status, status_color, direction, html_content,
              data_json>>
wfVars == <<wf_pc, run, py_exit, workdir, tmpdir, branch, head_tree, local_ref,
            remote_tree, remote_ref, committed, pushed, index, generated,
            exits, verified_on>>
cronVars == <<dow, hour, minute, triggered, fired>>
vars == <<pipeVars, wfVars, cronVars>>

----------------------------------------------------------------------------
(* Bounds of the model *)

\* fixed-point resolution: one unit is 1/Scale
Scale == 10000
\* largest closing price fed to the cell
MaxPrice == 2
\* series lengths tried: 0..MaxShort, and W-MaxShort..W+MaxExtra
MaxShort == 1
MaxExtra == 31
\* the last j*TailStep samples of a series differ from the earlier ones
TailStep == 10
MaxTailSteps == 4
\* largest magnitude of a deviation handed to the classifier directly
MaxSigma == 40000
\* number of workflow runs followed
MaxRuns == 2

----------------------------------------------------------------------------
(* Floating-point values *)

Num(n) == [k |-> "num", v |-> n]
NaN == [k |-> "nan", v |-> 0]
PosInf == [k |-> "inf", v |-> 1]
NegInf == [k |-> "inf", v |-> -1]
\* a name not yet bound
Unset == [k |-> "unset", v |-> 0]

IsNum(x) == x.k = "num"
IsNaN(x) == x.k = "nan"
IsInf(x) == x.k = "inf"

IAbs(n) == IF n < 0 THEN -n ELSE n
ISign(n) == IF n < 0 THEN -1 ELSE IF n > 0 THEN 1 ELSE 0

\* x <= y on floats: every comparison with NaN is False
FLeq(x, y) ==
    IF IsNaN(x) \/ IsNaN(y) THEN FALSE
    ELSE IF IsInf(x) THEN x.v < 0 \/ (IsInf(y) /\ y.v > 0)
    ELSE IF IsInf(y) THEN y.v > 0
    ELSE x.v <= y.v

FLess(x, y) ==
    IF IsNaN(x) \/ IsNaN(y) THEN FALSE
    ELSE IF IsInf(x) THEN x.v < 0 /\ ~(IsInf(y) /\ y.v < 0)
    ELSE IF IsInf(y) THEN y.v > 0
    ELSE x.v < y.v

FGreater(x, y) == FLess(y, x)

\* abs()
FAbs(x) ==
    IF IsNaN(x) THEN NaN
    ELSE IF IsInf(x) THEN PosInf
    ELSE Num(IAbs(x.v))

\* x - y
FSub(x, y) ==
    IF IsNaN(x) \/ IsNaN(y) THEN NaN
    ELSE IF IsInf(x) THEN (IF IsInf(y) /\ y.v = x.v THEN NaN ELSE x)
    ELSE IF IsInf(y) THEN (IF y.v > 0 THEN NegInf ELSE PosInf)
    ELSE Num(x.v - y.v)

\* x / y on numpy float64: division by zero yields nan or inf, no exception
FDiv(x, y) ==
    IF IsNaN(x) \/ IsNaN(y) THEN NaN
    ELSE IF IsInf(x) THEN
        (IF IsInf(y) THEN NaN
         ELSE IF x.v * (IF y.v < 0 THEN -1 ELSE 1) > 0 THEN PosInf ELSE NegInf)
    ELSE IF IsInf(y) THEN Num(0)
    ELSE IF y.v = 0 THEN
        (IF x.v = 0 THEN NaN ELSE IF x.v > 0 THEN PosInf ELSE NegInf)
    ELSE LET a == IAbs(x.v)
             b == IAbs(y.v)
             q == a \div b
             r == a % b
         IN  Num(ISign(x.v) * ISign(y.v) * (q * Scale + (r * Scale) \div b))

\* largest r in lo..hi with r * r <= n
RECURSIVE SqrtSearch(_, _, _)
SqrtSearch(n, lo, hi) ==
    IF lo >= hi THEN lo
    ELSE LET mid == (lo + hi + 1) \div 2
         IN  IF mid * mid <= n THEN SqrtSearch(n, mid, hi)
             ELSE SqrtSearch(n, lo, mid - 1)

ISqrt(n) == SqrtSearch(n, 0, IF n < 46340 THEN n ELSE 46340)

\* the literals of the classifier
Two == Num(2 * Scale)
Three == Num(3 * Scale)
Zero == Num(0)

\* f"{x:.2f}": the value rounded to hundredths (nan and inf print as such)
Fmt2(x) ==
    IF ~IsNum(x) THEN x
    ELSE LET a == IAbs(x.v) * 100
             q == a \div Scale
             r == a % Scale
             up == 2 * r > Scale \/ (2 * r = Scale /\ q % 2 = 1)
         IN  [k |-> "num", v |-> ISign(x.v) * (IF up THEN q + 1 ELSE q)]

----------------------------------------------------------------------------
(* The analysis cell *)

\* rolling(window=200)
W == 200
\* tail(30)
ChartDays == 30

\* series lengths the provider may return after dropna()
Lengths == (0 .. MaxShort) \cup ((W - MaxShort) .. (W + MaxExtra))

\* a series of n closes: price a, then price b for the last k samples
MakeSeries(n, a, b, k) == [i \in 1 .. n |-> IF i > n - k THEN b ELSE a]

\* sum of s[lo..hi], by halves
RECURSIVE SumRange(_, _, _)
SumRange(s, lo, hi) ==
    IF lo > hi THEN 0
    ELSE IF lo = hi THEN s[lo]
    ELSE LET mid == (lo + hi) \div 2
         IN  SumRange(s, lo, mid) + SumRange(s, mid + 1, hi)

\* sum of the squares of s[lo..hi], by halves
RECURSIVE SumSqRange(_, _, _)
SumSqRange(s, lo, hi) ==
    IF lo > hi THEN 0
    ELSE IF lo = hi THEN s[lo] * s[lo]
    ELSE LET mid == (lo + hi) \div 2
         IN  SumSqRange(s, lo, mid) + SumSqRange(s, mid + 1, hi)

\* closes.rolling(window=200).mean() at position i: NaN until the window is full
RollingMean(s, i) ==
    IF i < W THEN NaN
    ELSE Num((SumRange(s, i - W + 1, i) * Scale) \div W)

\* closes.rolling(window=200).std() at position i: sample standard deviation
\* (ddof = 1) of the window, NaN until the window is full
RollingStd(s, i) ==
    IF i < W THEN NaN
    ELSE LET sum == SumRange(s, i - W + 1, i)
             sq  == SumSqRange(s, i - W + 1, i)
             d   == W * sq - sum * sum
             den == W * (W - 1)
             var == (d \div den) * Scale + ((d % den) * Scale) \div den
         IN  Num(ISqrt(var * Scale))

\* a price as a float
Price(p) == Num(p * Scale)

\* series.tail(30): the last 30 (date, value) pairs, fewer if the series is shorter
TailOf(s) ==
    LET n == Len(s)
        first == IF n > ChartDays THEN n - ChartDays + 1 ELSE 1
    IN  [j \in 1 .. (n - first + 1) |-> [date |-> first + j - 1, val |-> s[first + j - 1]]]

\* lines 81-85: yf.download(...), sp500['Close'].dropna()
Download ==
    /\ pc = "fetch"
    /\ \E n \in Lengths, a \in 1 .. MaxPrice, b \in 1 .. MaxPrice, j \in 0 .. MaxTailSteps :
          closes' = MakeSeries(n, a, b, j * TailStep)
    /\ pc' = "metrics"
    /\ UNCHANGED <<ma_200, std_200, current_price, current_ma, current_std,
                   std_away, last_30_days, ma_30_days, dates, prices, mas,
                   abs_std, status, status_color, direction, html_content,
                   data_json>>
    /\ UNCHANGED <<wfVars, cronVars>>

\* lines 87-94: rolling statistics and std_away.  closes.iloc[-1] raises
\* IndexError on an empty series; nothing else in these lines raises.
CalculateMetrics ==
    /\ pc = "metrics"
    /\ LET n == Len(closes)
           ma == [i \in 1 .. n |-> RollingMean(closes, i)]
           sd == [i \in 1 .. n |-> RollingStd(closes, i)]
       IN  /\ ma_200' = ma
           /\ std_200' = sd
           /\ IF n = 0
              THEN /\ pc' = "failed"
                   /\ UNCHANGED <<current_price, current_ma, current_std, std_away>>
              ELSE /\ current_price' = Price(closes[n])
                   /\ current_ma' = ma[n]
                   /\ current_std' = sd[n]
                   /\ std_away' = FDiv(FSub(Price(closes[n]), ma[n]), sd[n])
                   /\ pc' = "chart"
    /\ UNCHANGED <<closes, last_30_days, ma_30_days, dates, prices, mas,
                   abs_std, status, status_color, direction, html_content,
                   data_json>>
    /\ UNCHANGED <<wfVars, cronVars>>

\* lines 96-105: the chart lists
ChartData ==
    /\ pc = "chart"
    /\ LET l30 == TailOf([i \in 1 .. Len(closes) |-> Price(closes[i])])
           m30 == TailOf(ma_200)
       IN  /\ last_30_days' = l30
           /\ ma_30_days' = m30
           /\ dates' = [j \in 1 .. Len(l30) |-> l30[j].date]
           /\ prices' = [j \in 1 .. Len(l30) |-> l30[j].val]
           /\ mas' = [j \in 1 .. Len(m30) |-> m30[j].val]
    /\ pc' = "status"
    /\ UNCHANGED <<closes, ma_200, std_200, current_price, current_ma,
                   current_std, std_away, abs_std, status, status_color,
                   direction, html_content, data_json>>
    /\ UNCHANGED <<wfVars, cronVars>>

\* line 146 (and the test of line 109): 2.0 <= abs_std <= 3.0
AlertFlagMutant(a) == FLeq(Two, a) /\ FLess(a, Three)
AlertFlag(a) == FLeq(Two, a) /\ FLeq(a, Three)

\* lines 109-117: the status branch, on abs_std
StatusOfMutant(a) ==
    IF FLess(Two, a) /\ FLeq(a, Three) THEN "ALERT"
    ELSE IF FLeq(a, Two) THEN "NORMAL"
    ELSE "EXTREME"
StatusOf(a) ==
    IF FLeq(Two, a) /\ FLeq(a, Three) THEN "ALERT"
    ELSE IF FLess(a, Two) THEN "NORMAL"
    ELSE "EXTREME"

ColorOf(a) ==
    IF FLeq(Two, a) /\ FLeq(a, Three) THEN "#ff4444"
    ELSE IF FLess(a, Two) THEN "#44ff44"
    ELSE "#ff8800"

\* line 119: "above" if std_away > 0 else "below"
DirectionOfMutant(x) == IF FLeq(Zero, x) THEN "above" ELSE "below"
DirectionOf(x) == IF FGreater(x, Zero) THEN "above" ELSE "below"

\* lines 107-119
DetermineStatus ==
    /\ pc = "status"
    /\ abs_std' = FAbs(std_away)
    /\ status' = StatusOf(FAbs(std_away))
    /\ status_color' = ColorOf(FAbs(std_away))
    /\ direction' = DirectionOf(std_away)
    /\ pc' = "html"
    /\ UNCHANGED <<closes, ma_200, std_200, current_price, current_ma,
                   current_std, std_away, last_30_days, ma_30_days, dates,
                   prices, mas, html_content, data_json>>
    /\ UNCHANGED <<wfVars, cronVars>>

\* lines 121-133: the values interpolated into the page
CreateHtml ==
    /\ pc = "html"
    /\ html_content' = << [color |-> status_color,
                           price |-> Fmt2(current_price),
                           ma |-> Fmt2(current_ma),
                           direction |-> direction,
                           sigma |-> Fmt2(abs_std),
                           labels |-> dates,
                           price_data |-> prices,
                           ma_data |-> mas] >>
    /\ pc' = "json"
    /\ UNCHANGED <<closes, ma_200, std_200, current_price, current_ma,
                   current_std, std_away, last_30_days, ma_30_days, dates,
                   prices, mas, abs_std, status, status_color, direction,
                   data_json>>
    /\ UNCHANGED <<wfVars, cronVars>>

\* lines 137-147: float() of a numpy float64 keeps its value, nan included
SaveJson ==
    /\ pc = "json"
    /\ data_json' = << [current_price |-> current_price,
                        ma_200 |-> current_ma,
                        std_200 |-> current_std,
                        std_away |-> std_away,
                        status |-> status,
                        direction |-> direction,
                        alert |-> AlertFlag(abs_std)] >>
    /\ pc' = "done"
    /\ UNCHANGED <<closes, ma_200, std_200, current_price, current_ma,
                   current_std, std_away, last_30_days, ma_30_days, dates,
                   prices, mas, abs_std, status, status_color, direction,
                   html_content>>
    /\ UNCHANGED <<wfVars, cronVars>>

----------------------------------------------------------------------------
(* Specifications of the analysis cell *)

PipeIdle ==
    /\ closes = << >> /\ ma_200 = << >> /\ std_200 = << >>
    /\ current_price = Unset /\ current_ma = Unset /\ current_std = Unset
    /\ last_30_days = << >> /\ ma_30_days = << >>
    /\ dates = << >> /\ prices = << >> /\ mas = << >>
    /\ abs_std = Unset /\ status = "unset" /\ status_color = "unset"
    /\ direction = "unset"
    /\ html_content = << >> /\ data_json = << >>

WfIdle ==
    /\ wf_pc = "idle" /\ run = 0 /\ py_exit = 0
    /\ workdir = {} /\ tmpdir = {} /\ branch = "main"
    /\ head_tree = {} /\ local_ref = FALSE
    /\ remote_tree = {} /\ remote_ref = FALSE
    /\ committed = FALSE /\ pushed = FALSE /\ verified_on = "none"
    /\ index = {} /\ generated = {} /\ exits = << >>

CronIdle == dow = 0 /\ hour = 0 /\ minute = 0 /\ triggered = FALSE /\ fired = 0

\* the cell, from the fetch on
Init ==
    /\ pc = "fetch"
    /\ std_away = Unset
    /\ PipeIdle /\ WfIdle /\ CronIdle

Next ==
    \/ Download
    \/ CalculateMetrics
    \/ ChartData
    \/ DetermineStatus
    \/ CreateHtml
    \/ SaveJson

Spec == Init /\ [][Next]_vars

\* the deviations handed to the classifier directly
ClassifierInputs ==
    {Num(v) : v \in (-MaxSigma) .. MaxSigma} \cup {NaN, PosInf, NegInf}

\* the classifier and the records built from it, on any deviation
InitClassify ==
    /\ pc = "status"
    /\ std_away \in ClassifierInputs
    /\ PipeIdle /\ WfIdle /\ CronIdle

NextClassify ==
    \/ DetermineStatus
    \/ CreateHtml
    \/ SaveJson

SpecClassify == InitClassify /\ [][NextClassify]_vars

----------------------------------------------------------------------------
(* The publishing workflow *)

\* A file is [n |-> name, c |-> content]; a content is [kind, run]: what was
\* written and by which run.  A tree or a directory is a set of files.
File(name, kind, r) == [n |-> name, c |-> [kind |-> kind, run |-> r]]

Names(tree) == {f.n : f \in tree}

\* cp and checkout overwrite files of the same name
Override(base, new) == {f \in base : f.n \notin Names(new)} \cup new

\* the tracked content of main: the sources, no generated file
MainTree ==
    {File("sp500_monitor.py", "src", 0),
     File(".github/workflows/monitor.yml", "src", 0)}

\* *.html *.png *.json *.log
GlobNames ==
    {"sp500_dashboard.html", "sp500_interactive.html", "index.html",
     "sp500_analysis.png", "sp500_analysis.json", "sp500_monitor.log"}

\* the auxiliary files a run may or may not write
AuxFiles(r) ==
    {File("sp500_interactive.html", "chart", r),
     File("sp500_analysis.png", "png", r),
     File("sp500_monitor.log", "log", r)}

\* python sp500_monitor.py: on success the dashboard and the summary, with any
\* of the auxiliary files; on failure no artifact, at most the log
ScriptWrites(ok, r, aux) ==
    IF ok
    THEN {File("sp500_dashboard.html", "dash", r),
          File("sp500_analysis.json", "json", r)} \cup aux
    ELSE {f \in aux : f.n = "sp500_monitor.log"}

\* runs-on: ubuntu-latest: every job starts on a new machine, /tmp included
StaleRunnerTmp == tmpdir
FreshRunnerTmp == {}

\* lines 13-17: a run starts (schedule or manual trigger) and checks main out
Checkout ==
    /\ wf_pc \in {"idle", "done", "failed"}
    /\ run < MaxRuns
    /\ run' = run + 1
    /\ workdir' = MainTree
    /\ index' = MainTree
    /\ tmpdir' = FreshRunnerTmp
    /\ branch' = "main"
    /\ local_ref' = FALSE
    /\ head_tree' = {}
    /\ committed' = FALSE
    /\ pushed' = FALSE
    /\ generated' = {}
    /\ py_exit' = 0
    /\ verified_on' = "none"
    /\ wf_pc' = "analysis"
    /\ UNCHANGED <<remote_tree, remote_ref, exits>>
    /\ UNCHANGED <<pipeVars, cronVars>>

\* lines 29-31: python sp500_monitor.py || echo ...: the step succeeds
\* whatever the script's exit status
RunAnalysis ==
    /\ wf_pc = "analysis"
    /\ \E ok \in BOOLEAN, aux \in SUBSET AuxFiles(run) :
          /\ generated' = ScriptWrites(ok, run, aux)
          /\ workdir' = Override(workdir, ScriptWrites(ok, run, aux))
          /\ py_exit' = IF ok THEN 0 ELSE 1
          /\ exits' = Append(exits, IF ok THEN 0 ELSE 1)
    /\ wf_pc' = "tmpdir"
    /\ UNCHANGED <<run, tmpdir, branch, head_tree, local_ref, remote_tree,
                   remote_ref, committed, pushed, index, verified_on>>
    /\ UNCHANGED <<pipeVars, cronVars>>

\* lines 49-56: index.html is the dashboard if there is one, else the error page
IndexFile(tmp, r) ==
    IF \E f \in tmp : f.n = "sp500_dashboard.html"
    THEN LET d == CHOOSE f \in tmp : f.n = "sp500_dashboard.html"
         IN  [n |-> "index.html", c |-> d.c]
    ELSE File("index.html", "fallback", r)

\* lines 37-60
CreateDeployDir ==
    /\ wf_pc = "tmpdir"
    /\ LET copied == Override(tmpdir, {f \in workdir : f.n \in GlobNames})
       IN  tmpdir' = Override(copied, {IndexFile(copied, run)})
    /\ wf_pc' = "verify"
    /\ UNCHANGED <<run, py_exit, workdir, branch, head_tree, local_ref,
                   remote_tree, remote_ref, committed, pushed, index,
                   generated, exits, verified_on>>
    /\ UNCHANGED <<pipeVars, cronVars>>

\* lines 62-69: prints only
VerifySource ==
    /\ wf_pc = "verify"
    /\ wf_pc' = "cleanup"
    /\ UNCHANGED <<run, py_exit, workdir, tmpdir, branch, head_tree, local_ref,
                   remote_tree, remote_ref, committed, pushed, index,
                   generated, exits, verified_on>>
    /\ UNCHANGED <<pipeVars, cronVars>>

\* lines 83-89: rm -f *.html *.png *.json *.log, then git clean -fd removes
\* what is left of the untracked files
CleanWorkdir(wd, idx) == {f \in wd : f.n \notin GlobNames /\ f.n \in Names(idx)}

\* lines 73-92
DeployCleanup ==
    /\ wf_pc = "cleanup"
    /\ workdir' = CleanWorkdir(workdir, index)
    /\ wf_pc' = "branch"
    /\ UNCHANGED <<run, py_exit, tmpdir, branch, head_tree, local_ref,
                   remote_tree, remote_ref, committed, pushed, index,
                   generated, exits, verified_on>>
    /\ UNCHANGED <<pipeVars, cronVars>>

\* git checkout refuses to overwrite an untracked file of the working tree
CheckoutConflict(wd, idx, target) ==
    \E f \in wd : f.n \notin Names(idx) /\ f.n \in Names(target)

\* the working tree after a checkout: untracked files stay, tracked ones are
\* replaced by the target's
CheckoutTree(wd, idx, target) ==
    {f \in wd : f.n \notin Names(idx)} \cup target

\* lines 94-104: the step runs under bash -e, so a failing checkout ends it
DeployBranch ==
    /\ wf_pc = "branch"
    /\ IF remote_ref \/ local_ref
       THEN LET target == IF remote_ref THEN remote_tree ELSE head_tree
            IN  IF CheckoutConflict(workdir, index, target)
                THEN /\ wf_pc' = "failed"
                     /\ UNCHANGED <<workdir, index, head_tree, local_ref, branch>>
                ELSE /\ workdir' = CheckoutTree(workdir, index, target)
                     /\ index' = target
                     /\ head_tree' = target
                     /\ local_ref' = TRUE
                     /\ branch' = "gh-pages"
                     /\ wf_pc' = "copy"
       ELSE \* git checkout --orphan: index and working tree stay, no commit yet
            /\ branch' = "gh-pages"
            /\ head_tree' = {}
            /\ wf_pc' = "copy"
            /\ UNCHANGED <<workdir, index, local_ref>>
    /\ UNCHANGED <<run, py_exit, tmpdir, remote_tree, remote_ref, committed,
                   pushed, generated, exits, verified_on>>
    /\ UNCHANGED <<pipeVars, cronVars>>

\* line 108: git rm -rf . removes every tracked file
ClearTreeMutant(wd, idx) == wd
ClearTree(wd, idx) == {f \in wd : f.n \notin Names(idx)}

\* lines 111-126: the staged files, or an error page when there are none
CopyFresh(wd, tmp, r) ==
    IF tmp # {} THEN Override(wd, tmp)
    ELSE Override(wd, {File("index.html", "error", r)})

\* lines 106-129: clear, copy, git add .
DeployCopy ==
    /\ wf_pc = "copy"
    /\ LET fresh == CopyFresh(ClearTree(workdir, index), tmpdir, run)
       IN  /\ workdir' = fresh
           /\ index' = fresh
    /\ wf_pc' = "push"
    /\ UNCHANGED <<run, py_exit, tmpdir, branch, head_tree, local_ref,
                   remote_tree, remote_ref, committed, pushed, generated,
                   exits, verified_on>>
    /\ UNCHANGED <<pipeVars, cronVars>>

\* the ways lines 140-144 can end: the normal push succeeds, or it fails and
\* the --force-with-lease push succeeds, or that fails and the --force push
\* succeeds, or all three fail
PushOutcomes == {"push", "lease", "force", "none"}

\* lines 131-147: under bash -e the step ends when the last push of line 144
\* fails
DeployPush ==
    /\ wf_pc = "push"
    /\ IF index = head_tree
       THEN \* git diff --staged --quiet: no changes to deploy
            /\ wf_pc' = "main"
            /\ UNCHANGED <<head_tree, local_ref, committed, pushed,
                           remote_tree, remote_ref>>
       ELSE /\ head_tree' = index
            /\ local_ref' = TRUE
            /\ committed' = TRUE
            /\ \E outcome \in PushOutcomes :
                  IF outcome = "none"
                  THEN /\ wf_pc' = "failed"
                       /\ UNCHANGED <<pushed, remote_tree, remote_ref>>
                  ELSE /\ remote_tree' = index
                       /\ remote_ref' = TRUE
                       /\ pushed' = TRUE
                       /\ wf_pc' = "main"
    /\ UNCHANGED <<run, py_exit, workdir, tmpdir, branch, index, generated,
                   exits, verified_on>>
    /\ UNCHANGED <<pipeVars, cronVars>>

\* lines 149-155: git checkout main
DeployCheckoutMain ==
    /\ wf_pc = "main"
    /\ workdir' = CheckoutTree(workdir, index, MainTree)
    /\ index' = MainTree
    /\ branch' = "main"
    /\ wf_pc' = "final"
    /\ UNCHANGED <<run, py_exit, tmpdir, head_tree, local_ref, remote_tree,
                   remote_ref, committed, pushed, generated, exits,
                   verified_on>>
    /\ UNCHANGED <<pipeVars, cronVars>>

\* lines 157-163: reports the branch and the source files; skipped, like every
\* later step, once a step has failed
FinalVerification ==
    /\ wf_pc = "final"
    /\ verified_on' = branch
    /\ wf_pc' = "upload"
    /\ UNCHANGED <<run, py_exit, workdir, tmpdir, branch, head_tree, local_ref,
                   remote_tree, remote_ref, committed, pushed, index,
                   generated, exits>>
    /\ UNCHANGED <<pipeVars, cronVars>>

\* lines 165-169
UploadArtifacts ==
    /\ wf_pc = "upload"
    /\ wf_pc' = "done"
    /\ UNCHANGED <<run, py_exit, workdir, tmpdir, branch, head_tree, local_ref,
                   remote_tree, remote_ref, committed, pushed, index,
                   generated, exits, verified_on>>
    /\ UNCHANGED <<pipeVars, cronVars>>

InitWorkflow ==
    /\ pc = "idle" /\ std_away = Unset
    /\ PipeIdle /\ WfIdle /\ CronIdle

NextWorkflow ==
    \/ Checkout
    \/ RunAnalysis
    \/ CreateDeployDir
    \/ VerifySource
    \/ DeployCleanup
    \/ DeployBranch
    \/ DeployCopy
    \/ DeployPush
    \/ DeployCheckoutMain
    \/ FinalVerification
    \/ UploadArtifacts

SpecWorkflow == InitWorkflow /\ [][NextWorkflow]_vars

----------------------------------------------------------------------------
(* The schedule: cron '30 13-20/2 * * 1-5', in UTC *)

CronMinute == 30
CronHourFrom == 13
CronHourTo == 20
CronHourStep == 2
CronDowFrom == 1
CronDowTo == 5

\* "UTC time (ET + 5 hours)"
EtOffset == 5
\* "from 8 AM to 3 PM ET"
WindowFrom == 8
WindowTo == 15

\* whether the cron expression matches a minute (day of month and month are *)
CronMatches(d, h, m) ==
    /\ m = CronMinute
    /\ h \in CronHourFrom .. CronHourTo
    /\ (h - CronHourFrom) % CronHourStep = 0
    /\ d \in CronDowFrom .. CronDowTo

\* the schedule fires the workflow, once in a matching minute
Trigger ==
    /\ CronMatches(dow, hour, minute)
    /\ ~triggered
    /\ triggered' = TRUE
    /\ fired' = fired + 1
    /\ UNCHANGED <<dow, hour, minute>>
    /\ UNCHANGED <<pipeVars, wfVars>>

\* a minute passes; a matching minute does not pass without its trigger
Tick ==
    /\ CronMatches(dow, hour, minute) => triggered
    /\ triggered' = FALSE
    /\ minute' = (minute + 1) % 60
    /\ hour' = IF minute = 59 THEN (hour + 1) % 24 ELSE hour
    /\ dow' = IF minute = 59 /\ hour = 23 THEN (dow + 1) % 7 ELSE dow
    /\ fired' = IF minute = 59 THEN 0 ELSE fired
    /\ UNCHANGED <<pipeVars, wfVars>>

InitCron ==
    /\ pc = "idle" /\ std_away = Unset
    /\ PipeIdle /\ WfIdle /\ CronIdle

NextCron ==
    \/ Trigger
    \/ Tick

SpecCron == InitCron /\ [][NextCron]_vars

\* the hour and the day of the week in ET of a UTC hour
EtHour(h) == (h - EtOffset + 24) % 24
EtDow(d, h) == IF h < EtOffset THEN (d + 6) % 7 ELSE d

\* market hours: 8 AM to 3 PM ET, Monday to Friday
InWindow(d, h) ==
    /\ EtDow(d, h) \in 1 .. 5
    /\ EtHour(h) \in WindowFrom .. WindowTo

----------------------------------------------------------------------------
(* Claims about the classifier and the summary record *)

\* the cell is past the status lines
Classified == pc \in {"html", "json", "done"}

\* C1: the status is decided by |x| alone: below 2.0 NORMAL, from 2.0 to 3.0
\* (both included) ALERT, above 3.0 EXTREME; 2.0, 3.0 and -2.5 are ALERT,
\* 1.999 is NORMAL, 3.0001 is EXTREME.  (nan, the one value without an
\* absolute value to compare, falls in the else branch: EXTREME.)
C1_StatusByAbsoluteValue ==
    Classified =>
        /\ status \in {"NORMAL", "ALERT", "EXTREME"}
        /\ IsNum(std_away) =>
              /\ IAbs(std_away.v) < 2 * Scale <=> status = "NORMAL"
              /\ (2 * Scale <= IAbs(std_away.v) /\ IAbs(std_away.v) <= 3 * Scale)
                     <=> status = "ALERT"
              /\ IAbs(std_away.v) > 3 * Scale <=> status = "EXTREME"
        /\ IsInf(std_away) => status = "EXTREME"
        /\ std_away = Num(2 * Scale) => status = "ALERT"
        /\ std_away = Num((1999 * Scale) \div 1000) => status = "NORMAL"
        /\ std_away = Num(3 * Scale) => status = "ALERT"
        /\ std_away = Num((30001 * Scale) \div 10000) => status = "EXTREME"
        /\ std_away = Num(-((5 * Scale) \div 2)) => status = "ALERT"

\* the classifier has answered ALERT on exactly 3.0
C1_Witness ==
    pc = "done" /\ std_away = Num(3 * Scale) /\ status = "ALERT"

\* C2: the direction is "above" exactly when the deviation is greater than 0;
\* 0 and everything below it (and nan) is "below", whatever the status
C2_DirectionBySign ==
    Classified =>
        /\ direction \in {"above", "below"}
        /\ direction = "above" <=>
              \/ IsNum(std_away) /\ std_away.v > 0
              \/ std_away = PosInf

\* a deviation of exactly 0 has been labelled "below"
C2_Witness ==
    pc = "done" /\ std_away = Num(0) /\ direction = "below" /\ status = "NORMAL"

\* C3: in the summary record, alert is true exactly when the status is ALERT,
\* and classifying the record's std_away again gives the record's status and
\* alert flag
C3_RecordConsistent ==
    pc = "done" =>
        /\ Len(data_json) = 1
        /\ data_json[1].alert <=> data_json[1].status = "ALERT"
        /\ StatusOf(FAbs(data_json[1].std_away)) = data_json[1].status
        /\ AlertFlag(FAbs(data_json[1].std_away)) = data_json[1].alert
        /\ DirectionOf(data_json[1].std_away) = data_json[1].direction

\* a record for a deviation of exactly -3.0: ALERT, alert flag set
C3_Witness ==
    /\ pc = "done"
    /\ data_json[1].std_away = Num(-(3 * Scale))
    /\ data_json[1].alert
    /\ data_json[1].status = "ALERT"

----------------------------------------------------------------------------
(* Claims about the cell as a whole *)

\* the cell has left the metrics lines
PastMetrics == pc \notin {"idle", "fetch", "metrics"}

\* C4: with fewer than 200 samples the cell fails: no status, no page, no
\* summary record
C4_InsufficientHistoryFails ==
    (PastMetrics /\ Len(closes) < W) =>
        /\ pc = "failed"
        /\ status = "unset"
        /\ html_content = << >>
        /\ data_json = << >>

\* C5: when the latest standard deviation is zero the cell fails, and no
\* status or record is ever derived from a nan or infinite std_away
C5_ZeroDeviationFails ==
    /\ (PastMetrics /\ Len(closes) >= W /\ current_std = Zero) =>
          pc = "failed" /\ status = "unset" /\ data_json = << >>
    /\ (Classified /\ Len(closes) >= W /\ ~IsNum(std_away)) => status = "unset"
    /\ (data_json # << >> /\ Len(closes) >= W) => IsNum(data_json[1].std_away)

\* the number of chart entries for a series of n samples
ChartLen(n) == IF n < ChartDays THEN n ELSE ChartDays

\* C8: once the chart lists are built for a series of at least 200 samples,
\* the three lists have min(30, n) entries, entry j of each is for the same
\* date, and every moving-average entry is the mean of the 200 samples ending
\* at its date, never an undefined one
C8_ChartListsDefined ==
    (pc \in {"status", "html", "json", "done"} /\ Len(closes) >= W) =>
        /\ Len(dates) = ChartLen(Len(closes))
        /\ Len(prices) = ChartLen(Len(closes))
        /\ Len(mas) = ChartLen(Len(closes))
        /\ \A j \in 1 .. Len(dates) :
              /\ last_30_days[j].date = dates[j]
              /\ ma_30_days[j].date = dates[j]
              /\ prices[j] = Price(closes[dates[j]])
              /\ IsNum(mas[j])
              /\ dates[j] >= W
              /\ mas[j] = RollingMean(closes, dates[j])

----------------------------------------------------------------------------
(* Claims about the workflow *)

\* the deploy directory of this run has been filled
Staged == wf_pc \notin {"idle", "analysis", "tmpdir"}

\* the generated files have been removed from the working tree
Cleaned == wf_pc \notin {"idle", "analysis", "tmpdir", "verify", "cleanup"}

\* C6: a run whose script exits non-zero stages and publishes no dashboard:
\* its index.html is the error page; and an index.html that is a dashboard
\* is the copy of the sp500_dashboard.html of a run whose script exited zero
C6_NoDashboardFromFailedRun ==
    /\ \A f \in remote_tree \cup tmpdir \cup head_tree :
          f.n = "index.html" =>
              \/ f.c.kind = "fallback"
              \/ /\ f.c.kind = "dash"
                 /\ f.c.run \in 1 .. Len(exits)
                 /\ exits[f.c.run] = 0
    /\ (py_exit # 0 /\ Staged) =>
          /\ File("index.html", "fallback", run) \in tmpdir
          /\ \A f \in tmpdir : f.c.kind # "dash"
    /\ (py_exit # 0 /\ pushed) =>
          /\ File("index.html", "fallback", run) \in remote_tree
          /\ \A f \in remote_tree : f.c.kind # "dash"

\* after a run that published a dashboard, a run whose script failed has
\* published its error page
C6_Witness ==
    /\ run = 2 /\ exits = <<0, 1>>
    /\ pushed /\ wf_pc = "done"
    /\ File("index.html", "fallback", 2) \in remote_tree

\* C9: the commit of a deploy holds exactly the files staged for this run,
\* which are the files the script wrote plus index.html; they were staged
\* before they were removed from the working tree, and nothing of an earlier
\* deploy is left on the branch
C9_BranchHoldsStagedFiles ==
    /\ Staged => tmpdir = generated \cup {IndexFile(generated, run)}
    /\ Cleaned => /\ generated \subseteq tmpdir
                  /\ branch = "main" => workdir \cap generated = {}
    /\ committed => /\ head_tree = tmpdir
                    /\ \A f \in head_tree : f.c.run = run
    /\ pushed => remote_tree = tmpdir

\* the second deploy has replaced a first one that held more files
C9_Witness ==
    /\ run = 2 /\ exits = <<0, 1>>
    /\ committed /\ pushed /\ wf_pc = "done"
    /\ remote_tree = {File("index.html", "fallback", 2)}

\* C10: whichever way the deploy step goes, the job ends with the working
\* tree back on main, and the final verification has run there
C10_EndsOnMain ==
    wf_pc \in {"done", "failed"} =>
        /\ branch = "main"
        /\ verified_on = "main"

----------------------------------------------------------------------------
(* Claim about the schedule *)

\* C7: in every hour of the market-hours window the schedule fires once, and
\* in no other hour does it fire
C7_HourlyInWindow ==
    /\ fired > 0 => InWindow(dow, hour)
    /\ minute = 59 => fired = (IF InWindow(dow, hour) THEN 1 ELSE 0)

============================================================================
